---- MODULE Spec2Model ----
(***************************************************************************)
(* A model of scripts/scrape_devotional.py: the text normalisation         *)
(* (clean_text), the extraction and validation of a devotional record      *)
(* (parse_devotional), the merge into the bounded, date-deduplicated       *)
(* history (save_devotional) and the run that composes them                *)
(* (scrape_daily_devotional).                                              *)
(*                                                                         *)
(* A text is a sequence of Unicode code points, so that the replacements   *)
(* of clean_text act on characters as Python's str.replace does.           *)
(***************************************************************************)
EXTENDS Integers, Sequences, FiniteSets, TLC

VARIABLES store, latest, now, last, norm, fetch

vars == <<store, latest, now, last, norm, fetch>>

(***************************************************************************)
(* Bounds of the model.                                                    *)
(***************************************************************************)
\* longest input text given to clean_text in SpecClean
MaxTextLen == 4

(***************************************************************************)
(* Python values.                                                          *)
(***************************************************************************)
\* Python's None for a text field: no code point is negative
None == <<-1>>

\* the truth value of a text field: None and "" are falsy
Truthy(text) == text # None /\ text # <<>>

\* the code points the patterns of clean_text are made of
A_TILDE == 195
CENT == 162
A_CIRC == 194
BROKEN_BAR == 166
BPH == 130
NBSP == 160
SPACE == 32
NEWLINE == 10

\* str.isspace of the code points below 256: what str.strip removes
IsSpace(c) == c \in {9, 10, 11, 12, 13, 28, 29, 30, 31, 32, 133, 160}

\* the start indices of the occurrences of pat in text
Occurrences(text, pat) ==
  {i \in 1..(Len(text) - Len(pat) + 1) : SubSeq(text, i, i + Len(pat) - 1) = pat}

Least(S) == CHOOSE i \in S : \A j \in S : i <= j
Greatest(S) == CHOOSE i \in S : \A j \in S : j <= i

\* str.replace(pat, rep): the text up to the first occurrence, the
\* replacement, and the same for the text after the occurrence
RECURSIVE Replace(_, _, _)
Replace(text, pat, rep) ==
  IF Occurrences(text, pat) = {} THEN text
  ELSE LET i == Least(Occurrences(text, pat))
       IN  SubSeq(text, 1, i - 1) \o rep
             \o Replace(SubSeq(text, i + Len(pat), Len(text)), pat, rep)

\* pat in text
Contains(text, pat) == Occurrences(text, pat) # {}

\* while "  " in text: text = text.replace("  ", " ")
RECURSIVE CollapseSpaces(_)
CollapseSpaces(text) ==
  IF Contains(text, <<SPACE, SPACE>>)
  THEN CollapseSpaces(Replace(text, <<SPACE, SPACE>>, <<SPACE>>))
  ELSE text

\* str.strip(): from the first to the last character that is no whitespace
Strip(text) ==
  LET kept == {i \in DOMAIN text : ~IsSpace(text[i])}
  IN  IF kept = {} THEN <<>> ELSE SubSeq(text, Least(kept), Greatest(kept))

\* the patterns and replacements of the substitution table, as written
MOJIBAKE == <<A_TILDE, CENT>>
MOJIBAKE_ELLIPSIS == <<A_TILDE, CENT, A_CIRC, BROKEN_BAR>>
MOJIBAKE_NBSP == <<A_TILDE, BPH>>
APOSTROPHE == <<39>>
QUOTE == <<34>>
EM_DASH == <<226, 128, 148>>
ELLIPSIS == <<46, 46, 46>>

\* the eight replacements of clean_text, in the order of the code
FixEncoding(text) ==
  LET t1 == Replace(text, MOJIBAKE, APOSTROPHE)
      t2 == Replace(t1, MOJIBAKE, QUOTE)
      t3 == Replace(t2, MOJIBAKE, QUOTE)
      t4 == Replace(t3, MOJIBAKE, EM_DASH)
      t5 == Replace(t4, MOJIBAKE_ELLIPSIS, ELLIPSIS)
      t6 == Replace(t5, MOJIBAKE_NBSP, <<SPACE>>)
      t7 == Replace(t6, <<NBSP>>, <<SPACE>>)
  IN  Replace(t7, <<NBSP>>, <<SPACE>>)

\* a slip a rewrite could make: the non-breaking spaces are replaced after the
\* runs of spaces are collapsed
clean_text_nbsp_last(text) ==
  IF ~Truthy(text) THEN text
  ELSE LET t1 == Replace(text, MOJIBAKE, APOSTROPHE)
           t5 == Replace(t1, MOJIBAKE_ELLIPSIS, ELLIPSIS)
           t6 == CollapseSpaces(Replace(t5, MOJIBAKE_NBSP, <<SPACE>>))
       IN  Strip(Replace(t6, <<NBSP>>, <<SPACE>>))

clean_text(text) ==
  IF ~Truthy(text) THEN text
  ELSE Strip(CollapseSpaces(FixEncoding(text)))

(***************************************************************************)
(* The state of a normalisation: a text, its normal form, and the normal   *)
(* form of that.                                                           *)
(***************************************************************************)
Alphabet ==
  {A_TILDE, CENT, A_CIRC, BROKEN_BAR, BPH, NBSP, SPACE, NEWLINE, 97}

Texts == UNION {[1..n -> Alphabet] : n \in 0..MaxTextLen}

NormIdle == [stage |-> "idle", input |-> <<>>, once |-> <<>>, twice |-> <<>>]


(***************************************************************************)
(* The clock.  An instant is a day and the number of the instant since the *)
(* first run; day 0 is January 1 of BaseYear (the years modelled have 365  *)
(* days).                                                                  *)
(***************************************************************************)
\* the year of day 0
BaseYear == 2025
\* the day of the first run: March 15 of the year after BaseYear
FirstDay == 438
\* instants the clock advances in a behaviour
MaxTicks == 1

Instants ==
  {[day |-> FirstDay + d, tick |-> k] : d \in 0..MaxTicks, k \in 0..MaxTicks}

MonthLengths == <<31, 28, 31, 30, 31, 30, 31, 31, 30, 31, 30, 31>>

MonthNames ==
  << <<74, 97, 110, 117, 97, 114, 121>>,
     <<70, 101, 98, 114, 117, 97, 114, 121>>,
     <<77, 97, 114, 99, 104>>,
     <<65, 112, 114, 105, 108>>,
     <<77, 97, 121>>,
     <<74, 117, 110, 101>>,
     <<74, 117, 108, 121>>,
     <<65, 117, 103, 117, 115, 116>>,
     <<83, 101, 112, 116, 101, 109, 98, 101, 114>>,
     <<79, 99, 116, 111, 98, 101, 114>>,
     <<78, 111, 118, 101, 109, 98, 101, 114>>,
     <<68, 101, 99, 101, 109, 98, 101, 114>> >>

\* the month (1..12) and the day of the month of the d-th day (0..364) of a year
RECURSIVE MonthDay(_, _)
MonthDay(d, m) ==
  IF d < MonthLengths[m] THEN [month |-> m, day |-> d + 1]
  ELSE MonthDay(d - MonthLengths[m], m + 1)

Calendar(day) ==
  LET md == MonthDay(day % 365, 1)
  IN  [year |-> BaseYear + (day \div 365), month |-> md.month, day |-> md.day]

Digit(n) == 48 + n
Digits2(n) == <<Digit((n \div 10) % 10), Digit(n % 10)>>
Digits4(n) == Digits2(n \div 100) \o Digits2(n % 100)

\* datetime.now().strftime("%B %d, %Y") on the given day
StrfDate(day) ==
  LET c == Calendar(day)
  IN  MonthNames[c.month] \o <<SPACE>> \o Digits2(c.day) \o <<44, SPACE>>
        \o Digits4(c.year)

\* datetime.now().isoformat(), the time of day to the resolution of the clock
IsoFormat(t) ==
  LET c == Calendar(t.day)
  IN  Digits4(c.year) \o <<45>> \o Digits2(c.month) \o <<45>> \o Digits2(c.day)
        \o <<84>> \o Digits2(t.tick)

(***************************************************************************)
(* The page as BeautifulSoup presents it: for each of the four markers,    *)
(* whether soup.find finds the element, the text nodes under it, and the   *)
(* <p> elements under it (each a sequence of text nodes).                  *)
(***************************************************************************)
NoElem == [found |-> FALSE, strings |-> <<>>, paragraphs |-> <<>>]
Elem(strings) == [found |-> TRUE, strings |-> strings, paragraphs |-> <<>>]
Paras(ps) == [found |-> TRUE, strings |-> <<>>, paragraphs |-> ps]

RECURSIVE Join(_, _)
Join(parts, sep) ==
  IF parts = <<>> THEN <<>>
  ELSE IF Len(parts) = 1 THEN parts[1]
  ELSE parts[1] \o sep \o Join(Tail(parts), sep)

\* the texts of a sequence that are not empty, in order
RECURSIVE NonEmpty(_)
NonEmpty(parts) ==
  IF parts = <<>> THEN <<>>
  ELSE IF Head(parts) = <<>> THEN NonEmpty(Tail(parts))
  ELSE <<Head(parts)>> \o NonEmpty(Tail(parts))

\* Tag.get_text(separator=sep, strip=True): every text node stripped, the
\* empty ones dropped, the rest joined by sep
GetText(strings, sep) ==
  Join(NonEmpty([i \in DOMAIN strings |-> Strip(strings[i])]), sep)

PARA_SEP == <<NEWLINE, NEWLINE>>
TITLE ==
  <<68, 97, 105, 108, 121, 32, 68, 101, 118, 111, 116, 105, 111, 110, 97, 108,
    32, 119, 105, 116, 104, 32, 80, 97, 115, 116, 111, 114, 32, 74, 111, 110>>
AUTHOR == <<74, 111, 110, 32, 67, 111, 117, 114, 115, 111, 110>>

\* the least length of an accepted content
MinContentLen == 50


(***************************************************************************)
(* parse_devotional.                                                       *)
(***************************************************************************)
\* a slip: an element without text is taken for a missing one
FieldTextOrMissing(elem, missing) ==
  IF elem.found /\ clean_text(GetText(elem.strings, <<>>)) # <<>>
  THEN clean_text(GetText(elem.strings, <<>>)) ELSE missing

\* the text of an element found by soup.find, or `missing` when it is not found
FieldText(elem, missing) ==
  IF elem.found THEN clean_text(GetText(elem.strings, <<>>)) ELSE missing

\* a slip: the paragraphs without text are not skipped
ContentTextKeepsEmpty(elem) ==
  IF ~elem.found THEN None
  ELSE IF elem.paragraphs # <<>>
       THEN Join([i \in DOMAIN elem.paragraphs |->
                    clean_text(GetText(elem.paragraphs[i], <<SPACE>>))],
                 PARA_SEP)
       ELSE clean_text(GetText(elem.strings, PARA_SEP))

\* the content: the non-empty normalised paragraphs joined by a blank line,
\* or without <p> elements the normalised text of the whole region
ContentText(elem) ==
  IF ~elem.found THEN None
  ELSE IF elem.paragraphs # <<>>
       THEN Join(NonEmpty([i \in DOMAIN elem.paragraphs |->
                             clean_text(GetText(elem.paragraphs[i], <<SPACE>>))]),
                 PARA_SEP)
       ELSE clean_text(GetText(elem.strings, PARA_SEP))

\* "Clean all text fields": a field that is set is normalised again
CleanField(text) == IF Truthy(text) THEN clean_text(text) ELSE text

\* the record parse_devotional builds, before it validates it
Extract(page, t) ==
  [scraped_at |-> IsoFormat(t),
   date |-> CleanField(FieldText(page.date, StrfDate(t.day))),
   title |-> CleanField(TITLE),
   scripture |-> CleanField(FieldText(page.scripture, None)),
   scripture_reference |-> CleanField(FieldText(page.scripture_reference, None)),
   content |-> CleanField(ContentText(page.content)),
   author |-> AUTHOR]

\* a slip: the gate compares with <= and rejects a content of exactly 50
ContentRejectedOffByOne(content) ==
  ~Truthy(content) \/ Len(content) <= MinContentLen

\* not devotional["content"] or len(devotional["content"]) < 50
ContentRejected(content) ==
  ~Truthy(content) \/ Len(content) < MinContentLen

\* a slip: the date is not looked at
ValidateSkipsDate(devotional) ==
  IF ContentRejected(devotional.content)
  THEN [error |-> "ContentTooShortOrMissing", devotional |-> devotional]
  ELSE [error |-> "none", devotional |-> devotional]

\* the validation that ends parse_devotional: the record, or the ValueError
\* raised for it
Validate(devotional) ==
  IF ContentRejected(devotional.content)
  THEN [error |-> "ContentTooShortOrMissing", devotional |-> devotional]
  ELSE IF ~Truthy(devotional.date)
  THEN [error |-> "DateMissing", devotional |-> devotional]
  ELSE [error |-> "none", devotional |-> devotional]

\* parse_devotional: the record, or the ValueError it raises
parse_devotional(page, t) == Validate(Extract(page, t))

(***************************************************************************)
(* The two files.  A file is absent, holds the JSON a run wrote, or holds  *)
(* the beginning of it: open("w") empties the file and json.dump writes    *)
(* through it piece by piece, so a write that fails leaves a prefix, which *)
(* is no JSON document ("truncated") and, cut inside a multi-byte          *)
(* character, no UTF-8 either ("undecodable").                             *)
(***************************************************************************)
NoDevotional ==
  [scraped_at |-> None, date |-> None, title |-> None, scripture |-> None,
   scripture_reference |-> None, content |-> None, author |-> None]

AbsentStore == [kind |-> "absent", data |-> <<>>]
AbsentLatest == [kind |-> "absent", data |-> NoDevotional]

Fields(d) ==
  <<d.scraped_at, d.date, d.title, d.scripture, d.scripture_reference,
    d.content, d.author>>

\* ensure_ascii=False: a code point above 127 is written as several bytes
HasNonAscii(d) ==
  \E i \in 1..7 : \E j \in DOMAIN Fields(d)[i] : Fields(d)[i][j] > 127

\* what a failed write leaves of the serialisation of the records ds
Partial(cut, ds) ==
  IF cut = "undecodable" /\ \E i \in DOMAIN ds : HasNonAscii(ds[i])
  THEN "undecodable" ELSE "truncated"

\* the records to keep
MaxHistory == 365

\* load_existing_devotionals: the collection, whether a warning is logged,
\* and whether the exception escapes
load_existing_devotionals(file) ==
  CASE file.kind = "absent" ->
         [devotionals |-> <<>>, warned |-> FALSE, raised |-> FALSE]
    [] file.kind = "json" ->
         [devotionals |-> file.data, warned |-> FALSE, raised |-> FALSE]
    [] file.kind = "truncated" ->
         [devotionals |-> <<>>, warned |-> TRUE, raised |-> FALSE]
    [] file.kind = "undecodable" ->
         [devotionals |-> <<>>, warned |-> FALSE, raised |-> TRUE]

\* [d.get("date") for d in devotionals]
ExistingDates(devotionals) ==
  [i \in DOMAIN devotionals |-> devotionals[i].date]

\* a slip: the date is looked for in the newest record only
InDatesNewestOnly(date, devotionals) ==
  devotionals # <<>> /\ devotionals[1].date = date

\* devotional["date"] in existing_dates
InDates(date, devotionals) ==
  \E i \in DOMAIN ExistingDates(devotionals) : ExistingDates(devotionals)[i] = date

\* the first index whose record has the date
FirstIndex(date, devotionals) ==
  CHOOSE i \in DOMAIN devotionals :
    /\ devotionals[i].date = date
    /\ \A j \in 1..(i - 1) : devotionals[j].date # date

\* a slip: the list is not cut after the insertion
InsertFrontUncut(devotionals, devotional) == <<devotional>> \o devotionals

\* a slip: the last 365 are kept, devotionals[-365:], not the first
InsertFrontKeepsLast(devotionals, devotional) ==
  LET all == <<devotional>> \o devotionals
  IN  IF Len(all) <= MaxHistory THEN all
      ELSE SubSeq(all, Len(all) - MaxHistory + 1, Len(all))

\* devotionals.insert(0, devotional); devotionals = devotionals[:365]
InsertFront(devotionals, devotional) ==
  SubSeq(<<devotional>> \o devotionals, 1,
         IF Len(devotionals) + 1 < MaxHistory THEN Len(devotionals) + 1
         ELSE MaxHistory)

\* the records of ds with a date other than date, in order
RECURSIVE Without(_, _)
Without(ds, date) ==
  IF ~\E i \in DOMAIN ds : ds[i].date = date THEN ds
  ELSE LET i == Least({j \in DOMAIN ds : ds[j].date = date})
       IN  SubSeq(ds, 1, i - 1) \o Without(SubSeq(ds, i + 1, Len(ds)), date)

\* a slip: the updated record is moved to the front
UpdateMovesToFront(devotionals, devotional) ==
  <<devotional>> \o Without(devotionals, devotional.date)

\* a slip: the index of the loop counts from one more than the position
UpdateOffByOne(devotionals, devotional) ==
  [devotionals EXCEPT ![FirstIndex(devotional.date, devotionals) + 1] = devotional]

\* devotionals[i] = devotional for the first i with the date
UpdateInPlace(devotionals, devotional) ==
  [devotionals EXCEPT ![FirstIndex(devotional.date, devotionals)] = devotional]

\* a slip: the record is inserted whether or not its date is known
MergeAlwaysInserts(devotionals, devotional) ==
  SubSeq(<<devotional>> \o devotionals, 1,
         IF Len(devotionals) + 1 < MaxHistory THEN Len(devotionals) + 1
         ELSE MaxHistory)

\* the merge of save_devotional
Merge(devotionals, devotional) ==
  IF ~InDates(devotional.date, devotionals)
  THEN InsertFront(devotionals, devotional)
  ELSE UpdateInPlace(devotionals, devotional)


(***************************************************************************)
(* save_devotional.  `io` says how the two writes go: each opens and       *)
(* writes ("ok"), fails to open (the file is left as it was) or fails      *)
(* while writing (the file is left with a prefix, cut as `cut` says).      *)
(***************************************************************************)
IOOutcomes ==
  {[store |-> "ok", latest |-> "ok", cut |-> "truncated"],
   [store |-> "open_fails", latest |-> "ok", cut |-> "truncated"],
   [store |-> "write_fails", latest |-> "ok", cut |-> "truncated"],
   [store |-> "write_fails", latest |-> "ok", cut |-> "undecodable"],
   [store |-> "ok", latest |-> "open_fails", cut |-> "truncated"],
   [store |-> "ok", latest |-> "write_fails", cut |-> "truncated"],
   [store |-> "ok", latest |-> "write_fails", cut |-> "undecodable"]}

\* with devotionals_file.open("w") as f: json.dump(devotionals, f, ...)
WriteStore(file, devotionals, io) ==
  CASE io.store = "ok" -> [kind |-> "json", data |-> devotionals]
    [] io.store = "open_fails" -> file
    [] io.store = "write_fails" ->
         [kind |-> Partial(io.cut, devotionals), data |-> <<>>]

\* with latest_file.open("w") as f: json.dump(devotional, f, ...)
WriteLatest(file, devotional, io) ==
  CASE io.latest = "ok" -> [kind |-> "json", data |-> devotional]
    [] io.latest = "open_fails" -> file
    [] io.latest = "write_fails" ->
         [kind |-> Partial(io.cut, <<devotional>>), data |-> NoDevotional]

\* save_devotional: the two files after it, the exception it ends with
\* ("none" when it returns), whether the warning of load_existing_devotionals
\* is logged, and the branch of the merge it took
save_devotional(storeFile, latestFile, devotional, io) ==
  LET loaded == load_existing_devotionals(storeFile)
      path == IF InDates(devotional.date, loaded.devotionals)
              THEN "update" ELSE "insert"
  IN  IF loaded.raised
      THEN [store |-> storeFile, latest |-> latestFile,
            error |-> "UnicodeDecodeError", warned |-> FALSE, path |-> "none"]
      ELSE IF io.store # "ok"
      THEN [store |-> WriteStore(storeFile, Merge(loaded.devotionals, devotional), io),
            latest |-> latestFile,
            error |-> "StoreWriteError", warned |-> loaded.warned, path |-> path]
      ELSE [store |-> WriteStore(storeFile, Merge(loaded.devotionals, devotional), io),
            latest |-> WriteLatest(latestFile, devotional, io),
            error |-> IF io.latest = "ok" THEN "none" ELSE "LatestWriteError",
            warned |-> loaded.warned, path |-> path]

(***************************************************************************)
(* fetch_page.  `failures` is the number of requests that fail before one  *)
(* succeeds.                                                               *)
(***************************************************************************)
\* retries=3
RETRIES == 3

\* whether fetch_page returns the page (or raises after the last attempt),
\* the requests it makes and the times it sleeps
fetch_page(failures) ==
  IF failures < RETRIES
  THEN [ok |-> TRUE, attempts |-> failures + 1, sleeps |-> failures]
  ELSE [ok |-> FALSE, attempts |-> RETRIES, sleeps |-> RETRIES - 1]

(***************************************************************************)
(* The loop of fetch_page, step by step.  `outcomes` says of each request   *)
(* whether it returns the page; `attempt` is the loop variable; the call    *)
(* ends having returned the page text ("returned"), re-raised the failure   *)
(* of the request ("raised") or fallen out of the loop, returning None      *)
(* ("returned_none").                                                       *)
(***************************************************************************)
\* the greatest value of the parameter `retries` in a call
MaxRetries == 4

FetchIdle ==
  [pc |-> "idle", retries |-> 0, outcomes |-> <<>>, attempt |-> 0,
   requests |-> 0, sleeps |-> 0]

\* for attempt in range(retries): the next value of the loop variable, or the
\* end of the loop
LoopNext(f) ==
  IF f.attempt + 1 < f.retries
  THEN [f EXCEPT !.attempt = @ + 1, !.pc = "request"]
  ELSE [f EXCEPT !.attempt = @ + 1, !.pc = "returned_none"]

\* requests.get and raise_for_status succeed: return response.text
RequestOk ==
  /\ fetch.pc = "request"
  /\ fetch.outcomes[fetch.requests + 1]
  /\ fetch' = [fetch EXCEPT !.requests = @ + 1, !.pc = "returned"]
  /\ UNCHANGED <<store, latest, now, last, norm>>

\* a slip: the failure of the last attempt is not raised again
RequestFailsNoRaise ==
  /\ fetch.pc = "request"
  /\ ~fetch.outcomes[fetch.requests + 1]
  /\ fetch' = [fetch EXCEPT !.requests = @ + 1, !.pc = "sleep"]
  /\ UNCHANGED <<store, latest, now, last, norm>>

\* except requests.RequestException: sleep if attempt < retries - 1, else raise
RequestFails ==
  /\ fetch.pc = "request"
  /\ ~fetch.outcomes[fetch.requests + 1]
  /\ fetch' = [fetch EXCEPT !.requests = @ + 1,
                            !.pc = IF fetch.attempt < fetch.retries - 1
                                   THEN "sleep" ELSE "raised"]
  /\ UNCHANGED <<store, latest, now, last, norm>>

\* time.sleep(5), then the next round of the loop
Sleep ==
  /\ fetch.pc = "sleep"
  /\ fetch' = LoopNext([fetch EXCEPT !.sleeps = @ + 1])
  /\ UNCHANGED <<store, latest, now, last, norm>>

\* range(retries) is empty: the loop body never runs
LoopEmpty ==
  /\ fetch.pc = "call"
  /\ fetch.retries = 0
  /\ fetch' = [fetch EXCEPT !.pc = "returned_none"]
  /\ UNCHANGED <<store, latest, now, last, norm>>

\* the first round of the loop
LoopEnter ==
  /\ fetch.pc = "call"
  /\ fetch.retries > 0
  /\ fetch' = [fetch EXCEPT !.pc = "request"]
  /\ UNCHANGED <<store, latest, now, last, norm>>

NextFetch ==
  LoopEnter \/ LoopEmpty \/ RequestOk \/ RequestFails \/ Sleep

(***************************************************************************)
(* The pages the site may serve at instant t.                              *)
(***************************************************************************)
Rep(c, n) == [i \in 1..n |-> c]

Page(date, scripture, ref, content) ==
  [date |-> date, scripture |-> scripture, scripture_reference |-> ref,
   content |-> content]

Verse == Elem(<< <<SPACE, 118, 101, 114, 115, 101, SPACE>> >>)
Ref == Elem(<< <<74, 110, NBSP, 51, 58, 49, 54>> >>)
Today(t) == Elem(<<StrfDate(t.day)>>)
\* yesterday's date, its spaces served as non-breaking spaces
Stale(t) == Elem(<<Replace(StrfDate(t.day - 1), <<SPACE>>, <<NBSP>>)>>)

Pages(t) ==
  { \* two paragraphs, 24 + 2 + 24 = 50 characters
    Page(Today(t), Verse, Ref, Paras(<< <<Rep(97, 24)>>, <<Rep(97, 24)>> >>)),
    \* two paragraphs, 24 + 2 + 23 = 49 characters
    Page(Today(t), NoElem, NoElem, Paras(<< <<Rep(97, 24)>>, <<Rep(98, 23)>> >>)),
    \* no date marker; a paragraph of two text nodes, an empty paragraph, and
    \* a paragraph with mojibake
    Page(NoElem, NoElem, NoElem,
         Paras(<< <<Rep(97, 24), Rep(97, 24)>>, <<<<SPACE>>>>,
                  <<MOJIBAKE_ELLIPSIS \o <<NBSP, NBSP>> \o Rep(98, 23)>> >>)),
    \* a stale date; no <p> element, two text nodes, 24 + 2 + 24 = 50
    Page(Stale(t), Verse, Ref, Elem(<<Rep(97, 24), Rep(98, 23) \o <<99>> >>)),
    \* a date marker without text
    Page(Elem(<< <<SPACE>> >>), Verse, Ref,
         Paras(<< <<Rep(97, 24)>>, <<Rep(97, 24)>> >>)),
    \* no commentary marker
    Page(Today(t), Verse, Ref, NoElem),
    \* 50 characters as served, 49 once normalised
    Page(Today(t), NoElem, NoElem,
         Paras(<< <<Rep(97, 47) \o MOJIBAKE \o <<98>> >> >>)),
    \* a commentary whose paragraphs are all empty
    Page(Today(t), NoElem, NoElem, Paras(<< <<<<NBSP>>>> >>)) }

\* parse_devotional of every page of every instant, computed once
Parsed ==
  [x \in {<<p, t>> : p \in UNION {Pages(i) : i \in Instants}, t \in Instants} |->
     parse_devotional(x[1], x[2])]

(***************************************************************************)
(* scrape_daily_devotional under main: one run.                            *)
(***************************************************************************)
NoRun ==
  [outcome |-> "none", saved |-> FALSE, warned |-> FALSE, path |-> "none",
   devotional |-> NoDevotional, exit |-> 0, printed |-> None]

Failed(outcome) ==
  [outcome |-> outcome, saved |-> FALSE, warned |-> FALSE, path |-> "none",
   devotional |-> NoDevotional, exit |-> 1, printed |-> None]

\* a run that ends in an exception before save_devotional is reached
Unsaved(storeFile, latestFile, outcome) ==
  [store |-> storeFile, latest |-> latestFile, last |-> Failed(outcome)]

\* a run that reached save_devotional: `saved` is what save_devotional left
Saved(saved, devotional) ==
  [store |-> saved.store, latest |-> saved.latest,
   last |-> [outcome |-> IF saved.error = "none" THEN "ok" ELSE saved.error,
             saved |-> TRUE, warned |-> saved.warned, path |-> saved.path,
             devotional |-> devotional,
             exit |-> IF saved.error = "none" THEN 0 ELSE 1,
             printed |-> IF saved.error = "none" THEN devotional.title ELSE None]]

\* a slip: the record is saved before the outcome of the validation is looked at
SavedUnvalidated(saved, parsed) ==
  IF parsed.error # "none"
  THEN [store |-> saved.store, latest |-> saved.latest, last |-> Failed(parsed.error)]
  ELSE Saved(saved, parsed.devotional)

scrape_saves_before_validating(storeFile, latestFile, t, failures, page, io) ==
  IF ~fetch_page(failures).ok THEN Unsaved(storeFile, latestFile, "FetchFailure")
  ELSE SavedUnvalidated(
         save_devotional(storeFile, latestFile, Parsed[<<page, t>>].devotional, io),
         Parsed[<<page, t>>])

\* the run from the parsed page on: the exception of parse_devotional, the
\* second validation of the content, save_devotional
SaveParsed(storeFile, latestFile, parsed, io) ==
  IF parsed.error # "none" THEN Unsaved(storeFile, latestFile, parsed.error)
  ELSE IF ContentRejected(parsed.devotional.content)
  THEN Unsaved(storeFile, latestFile, "ContentTooShortOrMissing")
  ELSE Saved(save_devotional(storeFile, latestFile, parsed.devotional, io),
             parsed.devotional)

\* the state a run leaves: the two files and the record of the run
scrape_daily_devotional(storeFile, latestFile, t, failures, page, io) ==
  IF ~fetch_page(failures).ok THEN Unsaved(storeFile, latestFile, "FetchFailure")
  ELSE SaveParsed(storeFile, latestFile, Parsed[<<page, t>>], io)

NoPage == Page(NoElem, NoElem, NoElem, NoElem)
DiskWorks == [store |-> "ok", latest |-> "ok", cut |-> "truncated"]

\* a run in an environment: the network fails as `net` allows and the disk
\* as `disk` allows
\* (a run reads the page only when the fetch returns one, and uses the disk
\* only when it reaches save_devotional: otherwise one value stands for all)
RunIn(net, disk) ==
  \E failures \in net :
    \E page \in IF fetch_page(failures).ok THEN Pages(now) ELSE {NoPage} :
      \E io \in IF fetch_page(failures).ok /\ Parsed[<<page, now>>].error = "none"
                THEN disk ELSE {DiskWorks} :
        \E r \in {scrape_daily_devotional(store, latest, now, failures, page, io)} :
          /\ store' = r.store
          /\ latest' = r.latest
          /\ last' = r.last
          /\ UNCHANGED <<now, norm, fetch>>

\* the requests that fail before one succeeds: none, or all of them (a run
\* does not tell one failed request from two: fetch_page returns the page)
Network == {0, RETRIES}

Run == RunIn(Network, IOOutcomes)

\* time passes between runs, within a day
Tick ==
  /\ now.tick < MaxTicks
  /\ now' = [now EXCEPT !.tick = @ + 1]
  /\ UNCHANGED <<store, latest, last, norm, fetch>>

\* time passes between runs, into the next day
Midnight ==
  /\ now.tick < MaxTicks
  /\ now' = [day |-> now.day + 1, tick |-> now.tick + 1]
  /\ UNCHANGED <<store, latest, last, norm, fetch>>

FirstInstant == [day |-> FirstDay, tick |-> 0]

Init ==
  /\ store = AbsentStore
  /\ latest = AbsentLatest
  /\ now = FirstInstant
  /\ last = NoRun
  /\ norm = NormIdle
  /\ fetch = FetchIdle

Next == Run \/ Tick \/ Midnight

Spec == Init /\ [][Next]_vars

(***************************************************************************)
(* A store with a year of history: the store that daily runs on the        *)
(* MaxHistory - 1 days before the first day leave, newest first, each run  *)
(* having found the page with the date of its day.                         *)
(***************************************************************************)
DailyPage(t) ==
  Page(Today(t), Verse, Ref, Paras(<< <<Rep(97, 24)>>, <<Rep(97, 24)>> >>))

DailyRecord(day) ==
  LET t == [day |-> day, tick |-> 0]
  IN  parse_devotional(DailyPage(t), t).devotional

History == [i \in 1..(MaxHistory - 1) |-> DailyRecord(FirstDay - i)]

InitYear ==
  /\ \/ store = AbsentStore /\ latest = AbsentLatest
     \/ /\ store = [kind |-> "json", data |-> History]
        /\ latest = [kind |-> "json", data |-> History[1]]
  /\ now = FirstInstant
  /\ last = NoRun
  /\ norm = NormIdle
  /\ fetch = FetchIdle

\* in the year of history a write succeeds or leaves the store truncated
YearDisk ==
  {io \in IOOutcomes :
     io.latest = "ok" /\ io.store # "open_fails" /\ io.cut = "truncated"}

RunYear == RunIn(Network, YearDisk)

NextYear == RunYear \/ Tick \/ Midnight

SpecYear == InitYear /\ [][NextYear]_vars

(***************************************************************************)
(* Normalisation on its own: a text is normalised, and its normal form is  *)
(* normalised again.                                                       *)
(***************************************************************************)
InitClean ==
  /\ store = AbsentStore
  /\ latest = AbsentLatest
  /\ now = FirstInstant
  /\ last = NoRun
  /\ \E text \in Texts \cup {None} :
       norm = [stage |-> "input", input |-> text, once |-> <<>>, twice |-> <<>>]
  /\ fetch = FetchIdle

Clean ==
  /\ norm.stage = "input"
  /\ norm' = [norm EXCEPT !.stage = "once", !.once = clean_text(norm.input)]
  /\ UNCHANGED <<store, latest, now, last, fetch>>

CleanAgain ==
  /\ norm.stage = "once"
  /\ norm' = [norm EXCEPT !.stage = "twice", !.twice = clean_text(norm.once)]
  /\ UNCHANGED <<store, latest, now, last, fetch>>

NextClean == Clean \/ CleanAgain

SpecClean == InitClean /\ [][NextClean]_vars

(***************************************************************************)
(* A call of fetch_page: any number of retries up to MaxRetries, any        *)
(* outcome of each request.  The loop runs in one thread, each request has  *)
(* a timeout and each sleep ends, so a step that can be taken is taken.     *)
(***************************************************************************)
InitFetch ==
  /\ store = AbsentStore
  /\ latest = AbsentLatest
  /\ now = FirstInstant
  /\ last = NoRun
  /\ norm = NormIdle
  /\ \E retries \in 0..MaxRetries :
       \E outcomes \in [1..(MaxRetries + 1) -> BOOLEAN] :
         fetch = [pc |-> "call", retries |-> retries, outcomes |-> outcomes,
                  attempt |-> 0, requests |-> 0, sleeps |-> 0]

SpecFetch == InitFetch /\ [][NextFetch]_vars /\ WF_vars(NextFetch)


(***************************************************************************)
(* The claims.                                                             *)
(***************************************************************************)
\* the records that pass the validation of parse_devotional at instant t
ValidRecords(t) ==
  {Parsed[<<p, t>>].devotional :
     p \in {q \in Pages(t) : Parsed[<<q, t>>].error = "none"}}

\* no two records of ds have the same date
NoDup(ds) == Cardinality({ds[i].date : i \in DOMAIN ds}) = Len(ds)

\* the ways the disk lets the store be written
StoreWritten == {io \in IOOutcomes : io.store = "ok"}

\* a step of the behaviour is a run (the clock stands still in a run)
IsRun == now' = now /\ last'.outcome # "none"

\* C10: clean_text is idempotent, clean_text(clean_text(T)) = clean_text(T)
\* for every text T, and its result holds no pattern of the substitution
\* table, no non-breaking space, no two spaces in a row and no whitespace at
\* either end.
C10_CleanIdempotent ==
  norm.stage = "twice" =>
    /\ norm.twice = norm.once
    /\ norm.once # None =>
         /\ ~Contains(norm.once, MOJIBAKE)
         /\ ~Contains(norm.once, MOJIBAKE_ELLIPSIS)
         /\ ~Contains(norm.once, MOJIBAKE_NBSP)
         /\ ~Contains(norm.once, <<NBSP>>)
         /\ ~Contains(norm.once, <<SPACE, SPACE>>)
         /\ norm.once # <<>> =>
              ~IsSpace(norm.once[1]) /\ ~IsSpace(norm.once[Len(norm.once)])

\* a text with mojibake, a non-breaking space next to a space and whitespace
\* at an end has been normalised twice, and the normalisation changed it
C10_Witness ==
  /\ norm.stage = "twice"
  /\ norm.input = <<A_TILDE, CENT, NBSP, SPACE>>
  /\ norm.once = APOSTROPHE


\* what save_devotional writes to the store when the disk lets it, given the
\* store file of this state and the record R
Loaded == load_existing_devotionals(store).devotionals
Loads == ~load_existing_devotionals(store).raised
Written(R, io) == save_devotional(store, latest, R, io).store

\* C1: dedup invariant.  For every collection load_existing_devotionals
\* returns from the store file and every validated record, the collection
\* save_devotional writes has no two elements with the same date.
C1_DedupInvariant ==
  \A R \in ValidRecords(now), io \in StoreWritten :
    Loads => Written(R, io).kind = "json" /\ NoDup(Written(R, io).data)

\* a run has updated a record of a store that holds a year of history
C1_Witness ==
  /\ last.outcome = "ok"
  /\ last.path = "update"
  /\ store.kind = "json"
  /\ Len(store.data) >= MaxHistory - 1

\* C2: bound invariant.  After the merge of save_devotional, on the insert
\* path and on the update path and for any loaded collection, the collection
\* written has at most 365 elements.
C2_BoundInvariant ==
  \A R \in ValidRecords(now), io \in StoreWritten :
    Loads => Len(Written(R, io).data) <= MaxHistory

\* a run has inserted a record into a store of 365 records, which still
\* holds 365: the new record first, the oldest record of the year gone
C2_Witness ==
  /\ last.outcome = "ok"
  /\ last.path = "insert"
  /\ store.kind = "json"
  /\ Len(store.data) = MaxHistory
  /\ store.data[MaxHistory] = History[MaxHistory - 2]

\* C3: whatever the runs before did (succeed, fail to fetch, fail the
\* validation, recover from a store that does not parse), the collection the
\* store holds has at most 365 records, pairwise distinct in date.
C3_StoreBoundedUnique ==
  store.kind = "json" => Len(store.data) <= MaxHistory /\ NoDup(store.data)

\* the store is full, the oldest record of the year of history has been
\* dropped from it, and the last run failed
C3_Witness ==
  /\ store.kind = "json"
  /\ Len(store.data) = MaxHistory
  /\ \A i \in DOMAIN store.data : store.data[i] # History[MaxHistory - 1]
  /\ last.outcome \in {"FetchFailure", "ContentTooShortOrMissing", "DateMissing"}

\* C5: order preservation on update.  When the date of the record is in the
\* loaded collection, the written collection is the loaded one with the first
\* element of that date replaced by the record: same length, every other
\* index unchanged.
C5_UpdateInPlace ==
  \A R \in ValidRecords(now), io \in StoreWritten :
    (Loads /\ \E i \in DOMAIN Loaded : Loaded[i].date = R.date) =>
      LET W == Written(R, io).data
          first == Least({i \in DOMAIN Loaded : Loaded[i].date = R.date})
      IN  /\ Len(W) = Len(Loaded)
          /\ W[first] = R
          /\ \A j \in DOMAIN Loaded : j # first => W[j] = Loaded[j]

\* a run has updated a record that is not the first of a full store, and the
\* record is where it was
C5_Witness ==
  /\ last.outcome = "ok"
  /\ last.path = "update"
  /\ store.kind = "json"
  /\ Len(store.data) = MaxHistory
  /\ \E k \in 2..Len(store.data) : store.data[k] = last.devotional
  /\ store.data[1].date = StrfDate(FirstDay)

\* C6: insert-front on a new date.  When the date of the record is not in the
\* loaded collection, the written collection is the first 365 elements of the
\* record followed by the loaded collection.
C6_InsertFront ==
  \A R \in ValidRecords(now), io \in StoreWritten :
    (Loads /\ ~\E i \in DOMAIN Loaded : Loaded[i].date = R.date) =>
      LET W == Written(R, io).data
      IN  /\ Len(W) = IF Len(Loaded) < MaxHistory THEN Len(Loaded) + 1
                      ELSE MaxHistory
          /\ W[1] = R
          /\ \A i \in DOMAIN Loaded : i + 1 <= MaxHistory => W[i + 1] = Loaded[i]

\* two runs have inserted into the year of history: the second record is
\* first, the first second, the history follows and its oldest record is gone
C6_Witness ==
  /\ last.outcome = "ok"
  /\ last.path = "insert"
  /\ store.kind = "json"
  /\ store.data[1] = last.devotional
  /\ Len(store.data) = MaxHistory
  /\ store.data[3] = History[1]
  /\ \A i \in DOMAIN store.data : store.data[i] # History[MaxHistory - 1]


\* C4: a run in which the fetch fails or parse_devotional raises a validation
\* failure never calls save_devotional and leaves the store and the latest
\* file exactly as they were.
C4_FailedRunWritesNothing ==
  [][(IsRun /\ last'.outcome \in
        {"FetchFailure", "ContentTooShortOrMissing", "DateMissing"})
       => (~last'.saved /\ store' = store /\ latest' = latest)]_vars

\* a run has failed the validation over the files an earlier run wrote
C4_Witness ==
  /\ last.outcome = "DateMissing"
  /\ ~last.saved
  /\ store.kind = "json"
  /\ latest.kind = "json"

\* C7: corrupt-store recovery.  Whenever the store file exists and does not
\* parse as a JSON array of records, the run that reaches save_devotional
\* logs the warning, does not fail because of the store, and, its writes
\* succeeding, leaves a store of its one record.
C7_CorruptStoreRecovery ==
  [][(IsRun /\ store.kind \in {"truncated", "undecodable"} /\ last'.saved)
       => /\ last'.warned
          /\ last'.outcome # "UnicodeDecodeError"
          /\ last'.outcome = "ok" =>
               store' = [kind |-> "json", data |-> <<last'.devotional>>]]_vars

\* C8: validation gate.  parse_devotional raises the content failure exactly
\* when the final normalised content is absent, empty or shorter than 50
\* characters (49 is rejected, 50 accepted), and no run saves a record the
\* gate rejects.
C8_ValidationGate ==
  /\ \A p \in Pages(now) :
       LET content == Parsed[<<p, now>>].devotional.content
       IN  Parsed[<<p, now>>].error = "ContentTooShortOrMissing"
             <=> (content = None \/ content = <<>> \/ Len(content) < MinContentLen)
  /\ last.saved =>
       /\ last.devotional.content # None
       /\ Len(last.devotional.content) >= MinContentLen

\* a run has saved a record whose content has exactly 50 characters, and a
\* page whose normalised content has 49 is rejected
C8_Witness ==
  /\ last.outcome = "ok"
  /\ Len(last.devotional.content) = MinContentLen
  /\ \E p \in Pages(now) :
       /\ Len(Parsed[<<p, now>>].devotional.content) = MinContentLen - 1
       /\ Parsed[<<p, now>>].error = "ContentTooShortOrMissing"

\* C9: latest pointer.  A successful run leaves its record in the latest
\* file, on the insert path and on the update path, and no other run changes
\* the latest file: it always holds the record of the last successful run.
C9_LatestPointer ==
  [][IsRun =>
       IF last'.outcome = "ok"
       THEN latest' = [kind |-> "json", data |-> last'.devotional]
       ELSE latest' = latest]_vars

\* the two files after save_devotional(R) on the files of this state, and
\* after save_devotional(R) once more on those, the disk working
SavedOnce(R) == save_devotional(store, latest, R, DiskWorks)
SavedTwice(R) ==
  save_devotional(SavedOnce(R).store, SavedOnce(R).latest, R, DiskWorks)

\* C11: idempotence for same-date input.  For every store and every validated
\* record R, save_devotional(R) twice in a row leaves the store and the
\* latest file as save_devotional(R) once does: the second call takes the
\* update path and changes nothing.
C11_SaveTwiceIsSaveOnce ==
  \A R \in ValidRecords(now) :
    Loads =>
      /\ SavedOnce(R).error = "none"
      /\ SavedTwice(R).error = "none"
      /\ SavedTwice(R).path = "update"
      /\ SavedTwice(R).store = SavedOnce(R).store
      /\ SavedTwice(R).latest = SavedOnce(R).latest

\* a run has saved, by the update path, the record that is already the
\* newest of a full store, the year of history behind it
C11_Witness ==
  /\ last.outcome = "ok"
  /\ last.path = "update"
  /\ store.kind = "json"
  /\ Len(store.data) = MaxHistory
  /\ store.data[1] = last.devotional
  /\ latest.data = last.devotional
  /\ store.data[2] = History[1]

\* a record that passes validation: its content, normalised, is not empty and
\* has at least 50 characters, and its date, normalised, is not empty
IsValid(d) ==
  /\ Truthy(d.content)
  /\ Len(clean_text(d.content)) >= MinContentLen
  /\ Truthy(d.date)
  /\ clean_text(d.date) # <<>>

\* C12: every record a run writes to the store or to the latest file has
\* passed validation; no sequence of runs from an absent store leaves an
\* invalid record in either file.
C12_OnlyValidPersisted ==
  /\ store.kind = "json" => \A i \in DOMAIN store.data : IsValid(store.data[i])
  /\ latest.kind = "json" => IsValid(latest.data)

\* runs have saved two records, one of them with the date of the day the page
\* did not give, and a run after them found a page without a date text
C12_Witness ==
  /\ store.kind = "json"
  /\ Len(store.data) = 2
  /\ latest.kind = "json"
  /\ \E i \in DOMAIN store.data : Len(store.data[i].content) = MinContentLen
  /\ last.outcome = "DateMissing"

\* the failures the exit status answers to: the fetch, the validation, the
\* write of either file
FatalOutcomes ==
  {"FetchFailure", "ContentTooShortOrMissing", "DateMissing",
   "StoreWriteError", "LatestWriteError"}

\* C13: process exit behaviour.  The status of a run is non-zero if and only
\* if the run failed to fetch, failed the validation or failed to write one
\* of the two files; a store that does not parse is recovered and does not
\* change the status; a run that succeeds reports the title of its record.
C13_ExitStatus ==
  last.outcome # "none" =>
    /\ last.exit # 0 <=> last.outcome \in FatalOutcomes
    /\ last.exit = 0 =>
         /\ last.outcome = "ok"
         /\ last.printed = last.devotional.title
         /\ last.printed = TITLE

\* C14: substitution order.  A longer pattern of the table is replaced before
\* a shorter one that is its prefix: a text that holds the mojibake of the
\* ellipsis is normalised to a text that holds "..." in its place, and the
\* apostrophe rule never consumes the beginning of the sequence.
C14_EllipsisBeforeApostrophe ==
  (norm.stage \in {"once", "twice"} /\ norm.input # None
     /\ Contains(norm.input, MOJIBAKE_ELLIPSIS)) =>
    /\ Contains(norm.once, ELLIPSIS)
    /\ ~Contains(norm.once, APOSTROPHE \o <<A_CIRC, BROKEN_BAR>>)

\* the normalised text of each paragraph of a region, in document order
ParagraphTexts(elem) ==
  [i \in DOMAIN elem.paragraphs |->
     clean_text(GetText(elem.paragraphs[i], <<SPACE>>))]

\* the texts with an index in S, in the order of the indices, a blank line
\* between one and the next
RECURSIVE BlankLineJoined(_, _)
BlankLineJoined(texts, S) ==
  IF S = {} THEN <<>>
  ELSE IF S = {Least(S)} THEN texts[Least(S)]
  ELSE texts[Least(S)] \o <<NEWLINE, NEWLINE>>
         \o BlankLineJoined(texts, S \ {Least(S)})

\* C15: content assembly.  With paragraphs in the commentary region the
\* content is the normalised texts of the paragraphs, in document order, the
\* empty ones skipped, joined by a blank line; without paragraphs it is the
\* normalised text of the region; without the region it stays absent and the
\* validation fails.
C15_ContentAssembly ==
  \A p \in Pages(now) :
    LET parsed == Parsed[<<p, now>>]
        texts == ParagraphTexts(p.content)
    IN  /\ ~p.content.found =>
             /\ parsed.devotional.content = None
             /\ parsed.error = "ContentTooShortOrMissing"
        /\ (p.content.found /\ p.content.paragraphs # <<>>) =>
             parsed.devotional.content =
               BlankLineJoined(texts, {i \in DOMAIN texts : texts[i] # <<>>})
        /\ (p.content.found /\ p.content.paragraphs = <<>>) =>
             parsed.devotional.content =
               clean_text(GetText(p.content.strings, PARA_SEP))

\* a run has saved the record of a page of three paragraphs, the second
\* without text: the content is the first, a blank line, the third
C15_Witness ==
  /\ last.outcome = "ok"
  /\ last.devotional.content =
       Rep(97, 24) \o <<SPACE>> \o Rep(97, 24) \o <<NEWLINE, NEWLINE>>
         \o <<39, A_CIRC, BROKEN_BAR, SPACE>> \o Rep(98, 23)
  /\ \E p \in Pages(now) :
       /\ Len(p.content.paragraphs) = 3
       /\ Parsed[<<p, now>>].devotional.content = last.devotional.content

\* C16: write integrity.  A write of save_devotional that fails never leaves
\* the store or the latest file holding the beginning of a serialisation, and
\* the failure of either write ends the run as a failure.
C16_NoPartialFile ==
  /\ store.kind \in {"absent", "json"}
  /\ latest.kind \in {"absent", "json"}
  /\ last.outcome \in {"StoreWriteError", "LatestWriteError"} => last.exit # 0

\* the requests that fail before the first that succeeds, in a call
LeadingFailures ==
  Least({k \in DOMAIN fetch.outcomes : fetch.outcomes[k]}
          \cup {Len(fetch.outcomes) + 1}) - 1

\* what holds at every point of a call of fetch_page with retries > 0
FetchBounded ==
  (fetch.pc # "idle" /\ fetch.retries > 0) =>
    /\ fetch.requests <= fetch.retries
    /\ fetch.pc # "returned_none"
    /\ fetch.pc = "returned" =>
         /\ fetch.outcomes[fetch.requests]
         /\ \A k \in 1..(fetch.requests - 1) : ~fetch.outcomes[k]
         /\ fetch.sleeps = fetch.requests - 1
    /\ fetch.pc = "raised" =>
         /\ fetch.requests = fetch.retries
         /\ \A k \in 1..fetch.retries : ~fetch.outcomes[k]
         /\ fetch.sleeps = fetch.retries - 1
    /\ (fetch.pc \in {"returned", "raised"} /\ fetch.retries = RETRIES) =>
         fetch_page(IF LeadingFailures < RETRIES THEN LeadingFailures ELSE RETRIES)
           = [ok |-> fetch.pc = "returned", attempts |-> fetch.requests,
              sleeps |-> fetch.sleeps]

\* C17: bounded retry.  A call of fetch_page ends after at most `retries`
\* requests (3 by default): with the page text at the first request that
\* succeeds, no request after it, or with the failure raised again after the
\* last request; it sleeps after each failed request but the last, and never
\* returns without a page text.
C17_BoundedRetry ==
  /\ []FetchBounded
  /\ (fetch.retries > 0) => <>(fetch.pc \in {"returned", "raised"})

\* a call with the default retries has raised the failure of its third
\* request, having slept twice
C17_Witness ==
  /\ fetch.pc = "raised"
  /\ fetch.retries = RETRIES
  /\ fetch.requests = RETRIES
  /\ fetch.sleeps = RETRIES - 1

\* the normalised text of the date marker of a page
DateText(p) == clean_text(GetText(p.date.strings, <<>>))

\* C18: date fallback.  A page without date marker gets the date of the day,
\* "Month Day, Year", and never fails for its date; the date failure is
\* raised only for a page whose date marker is there and has no text, and
\* then the date of the day is not put in its place.
C18_DateFallback ==
  \A p \in Pages(now) :
    LET parsed == Parsed[<<p, now>>]
        c == Calendar(now.day)
    IN  /\ ~p.date.found =>
             /\ parsed.error # "DateMissing"
             /\ parsed.devotional.date =
                  MonthNames[c.month] \o <<SPACE>>
                    \o <<48 + (c.day \div 10), 48 + (c.day % 10)>> \o <<44, SPACE>>
                    \o <<48 + (c.year \div 1000), 48 + ((c.year \div 100) % 10),
                         48 + ((c.year \div 10) % 10), 48 + (c.year % 10)>>
        /\ parsed.error = "DateMissing" =>
             /\ p.date.found
             /\ DateText(p) = <<>>
             /\ parsed.devotional.date = <<>>
        /\ (p.date.found /\ DateText(p) = <<>>) =>
             parsed.error \in {"DateMissing", "ContentTooShortOrMissing"}
        /\ (p.date.found /\ DateText(p) # <<>>) =>
             parsed.devotional.date = DateText(p)

\* a run has saved the record of a page without date marker under the date
\* of the day, and a page with an empty date marker fails for its date
C18_Witness ==
  /\ last.outcome = "ok"
  /\ last.devotional.date = StrfDate(now.day)
  /\ \E p \in Pages(now) :
       ~p.date.found /\ Parsed[<<p, now>>].devotional = last.devotional
  /\ \E p \in Pages(now) : Parsed[<<p, now>>].error = "DateMissing"

\* C19: agreement of the two files.  In every state the runs reach from an
\* absent store, a run in which the store is written and the write of the
\* latest file fails included, the record the latest file holds is an
\* element of the collection the store holds.
C19_LatestInStore ==
  (latest.kind = "json" /\ store.kind = "json") =>
    \E i \in DOMAIN store.data : store.data[i] = latest.data

====
